---- MODULE Spec2Model ----
(***************************************************************************)
(* The training / evaluation loops of the two notebooks:                   *)
(*   CL1 - Linear regression, section 2.4 (SGD, one full batch per epoch), *)
(*   CL2 - IRIS classification, sections 3.2, 3.3 and 3.4 (Adam, shuffled  *)
(*         mini-batches, accuracy, validation pass under no_grad).         *)
(* Every statement of a loop body is one action; pc is the position of the *)
(* single thread of control.  Floating point values are modelled exactly:  *)
(* parameters are fixed-point integers, losses and gradients are rationals *)
(* <<numerator, denominator>> in lowest terms.                             *)
(* A behaviour is one run of one training cell.  A cell reads no variable  *)
(* that an earlier training cell assigned before assigning it itself (the  *)
(* model, the optimizer, losses and n_correct are all re-created), so a    *)
(* run starts with those variables unset.                                  *)
(***************************************************************************)
EXTENDS Integers, Sequences, FiniteSets

(* ------------------------------ bounds -------------------------------- *)
\* Number of epochs of every loop: range(20) in the notebooks.
NumEpochs == 20
\* The shuffled loops of CL2 are explored for at most this many epochs.
MaxEpochs == 3
\* Output width of nn.Linear(4, 3): the number of classes.
NumClasses == 3
\* Largest number of rows of the regression csv (50 in the lab's data).
RegLen == 2
\* Lengths handed to random_split ([90, 15] in the notebook).
TrainLen == 3
ValLen == 1
\* batch_size of the shuffled loaders (32 in the notebook).
BatchSize == 2
\* Number of data sets (label / noise variants) beyond the first.
MaxSeed == 1
\* Rows train_test_split withholds for the test set (45 of 150 in the notebook).
TestLen == 2
\* the epochs of the ten-point regression scenario
ScenarioEpochs == 200

\* len(t_dataset): random_split needs the lengths to sum to it (105 = 90 + 15).
TLen == TrainLen + ValLen
\* batch_size of val_t_data_loader: 105, the length of t_dataset.
ValBatchSize == TLen

\* rows of iris.csv: train_test_split(test_size=0.3) cuts them 105 / 45
NRows == TLen + TestLen

Classes == 0 .. (NumClasses - 1)

\* the species encode_species recognizes, in the order of their codes
SpeciesNames == <<"setosa", "versicolor", "virginica">>

(* ----------------------------- rationals ------------------------------ *)
Abs(n) == IF n < 0 THEN -n ELSE n

Sign(n) == IF n < 0 THEN -1 ELSE IF n > 0 THEN 1 ELSE 0

\* Euclid's algorithm
GCD(a, b) ==
    LET gcd[p \in Nat \X Nat] == IF p[2] = 0 THEN p[1] ELSE gcd[<<p[2], p[1] % p[2]>>]
    IN  gcd[<<a, b>>]

\* n/d in lowest terms with a positive denominator
Rat(n, d) ==
    LET g == GCD(Abs(n), Abs(d))
        s == IF d < 0 THEN -1 ELSE 1
    IN  <<(s * n) \div g, (s * d) \div g>>

RAdd(p, q) == Rat(p[1] * q[2] + q[1] * p[2], p[2] * q[2])

RDivInt(p, k) == Rat(p[1], p[2] * k)

RLeq(p, q) == p[1] * q[2] <= q[1] * p[2]

RZero == <<0, 1>>

\* Python's sum(): left to right from 0
RSum(s) ==
    LET upto[n \in 0 .. Len(s)] == IF n = 0 THEN RZero ELSE RAdd(upto[n - 1], s[n])
    IN  upto[Len(s)]

ISum(s) ==
    LET upto[n \in 0 .. Len(s)] == IF n = 0 THEN 0 ELSE upto[n - 1] + s[n]
    IN  upto[Len(s)]

Min(a, b) == IF a < b THEN a ELSE b

Range(s) == {s[i] : i \in DOMAIN s}

Iota(n) == [i \in 1 .. n |-> i]

\* the elements of a set of integers in increasing order
RECURSIVE SortedSeq(_)
SortedSeq(S) ==
    IF S = {} THEN << >>
    ELSE LET m == CHOOSE x \in S : \A y \in S : x <= y
         IN  <<m>> \o SortedSeq(S \ {m})

\* The orders in which the elements of S can be dealt out in consecutive groups
\* of the given sizes, one order per assignment of elements to groups: inside
\* a group the elements are in increasing order.
RECURSIVE Deals(_, _)
Deals(S, sizes) ==
    IF sizes = << >> THEN {<< >>}
    ELSE UNION {{SortedSeq(G) \o r : r \in Deals(S \ G, Tail(sizes))} :
                  G \in {G \in SUBSET S : Cardinality(G) = Head(sizes)}}

\* the sizes of the batches of n samples: full ones, then the rest
RECURSIVE BatchSizes(_, _)
BatchSizes(n, bs) ==
    IF n = 0 THEN << >> ELSE <<Min(bs, n)>> \o BatchSizes(n - Min(bs, n), bs)

VARIABLES
    cell,           \* the section whose loop runs: "2.4", "3.2", "3.3", "3.4"
    pc,             \* position of the thread of control
    epoch,          \* the loop variable of range(20)
    reg_len,        \* len(x) of the regression data
    seed,           \* which data set the csv holds
    train_idx,      \* train_t_dataset.indices
    val_idx,        \* val_t_dataset.indices
    it,             \* the loader iterator: indices not yet yielded
    b,              \* the current batch (b_x, b_y), as sample indices
    pred,           \* model(b_x)
    loss,           \* loss_fn(pred, b_y)
    graph,          \* loss carries an autograd graph (grad_fn)
    losses,         \* losses / losses_in_epoch
    n_correct,
    param,          \* model.parameters()
    grad,           \* the parameters' .grad; << >> is None
    opt_steps,      \* optimizer steps taken by the current optimizer
    avg_loss, accuracy,
    train_avg_loss, train_accuracy,
    val_avg_loss, val_accuracy,
    out_last,       \* the last line printed
    out_count,      \* lines printed by the current cell
    log,            \* batches processed in the current epoch
    ops,            \* collaborator calls made for the current batch
    error,          \* the exception that ended the run; "" is none
    species,        \* dataset['species'].values
    y,              \* the encoded labels
    train_rows,     \* rows train_test_split put into the training set
    test_rows,      \* rows train_test_split put into the test set
    x_train, y_train,
    x_test, y_test,
    preds,          \* hard predictions on the test set
    acc,            \* test accuracy
    cm,             \* confusion_matrix(test_labels, preds)
    model_obj,      \* which object the name 'model' refers to
    opt_obj,        \* the model object whose parameters the optimizer holds
    prev_param,     \* the parameters of the model the section before left behind
    prev_steps      \* the steps the optimizer of the section before took

\* the data the cells before the training cells prepare
dataVars == <<species, y, train_rows, test_rows, x_train, y_train, x_test, y_test>>
\* the results of the assessment cells
testVars == <<preds, acc, cm>>
\* the objects the names 'model' and 'optimizer' are bound to, and what the
\* section before left behind
bindVars == <<model_obj, opt_obj, prev_param, prev_steps>>
cfgVars == <<cell, reg_len, seed, dataVars, testVars, bindVars>>
splitVars == <<train_idx, val_idx>>
modelVars == <<param, grad, opt_steps>>
batchVars == <<it, b, pred, loss, graph>>
accVars == <<losses, n_correct>>
metricVars == <<avg_loss, accuracy, train_avg_loss, train_accuracy, val_avg_loss, val_accuracy>>
outVars == <<out_last, out_count>>
vars == <<cfgVars, pc, epoch, splitVars, modelVars, batchVars, accVars, metricVars, outVars, log, ops, error>>

(* ------------------------------- data --------------------------------- *)
\* Regression csv: feature x and target y of row i (y = 2x + 1, plus noise).
RegX(i) == i
RegY(i, d) == 2 * i + 1 + d * (i % 2)

\* IRIS tensors: one feature and the encoded species of row i.
ClsX(i) == IF i % 2 = 1 THEN 1 ELSE -1
ClsY(i, d) == (i + d * (i \div 2)) % NumClasses

IsReg == cell = "2.4"

\* dataset['species'].values of a csv of n rows
CsvSpecies(n, d) == [r \in 1 .. n |-> SpeciesNames[ClsY(r, d) + 1]]

\* x = dataset[[...]].values: the feature rows of the csv
CsvFeatures(n) == [r \in 1 .. n |-> ClsX(r)]

\* an encoder whose last branch takes every other name for 'virginica'
encode_species_Lenient(sp) ==
    IF sp = "setosa" THEN [raised |-> FALSE, value |-> 0]
    ELSE IF sp = "versicolor" THEN [raised |-> FALSE, value |-> 1]
    ELSE [raised |-> FALSE, value |-> 2]

\* encode_species(species): the code of the species, or the ValueError raised
encode_species(sp) ==
    IF sp = "setosa" THEN [raised |-> FALSE, value |-> 0]
    ELSE IF sp = "versicolor" THEN [raised |-> FALSE, value |-> 1]
    ELSE IF sp = "virginica" THEN [raised |-> FALSE, value |-> 2]
    ELSE [raised |-> TRUE, value |-> -1]

\* list(map(encode_species, column)): the first ValueError ends the list() call
MapRaises(col) == \E r \in 1 .. Len(col) : encode_species(col[r]).raised

MapEncode(col) == [r \in 1 .. Len(col) |-> encode_species(col[r]).value]

\* a[idx]: the rows of an array picked by an index array, in its order
Take(a, idx) == [i \in 1 .. Len(idx) |-> a[idx[i]]]

\* what the data cells leave behind for a species column and the two index
\* arrays train_test_split chose
Prepared(col, tr, te) ==
    [species |-> col, y |-> MapEncode(col), train_rows |-> tr, test_rows |-> te,
     x_train |-> Take(CsvFeatures(Len(col)), tr), y_train |-> Take(MapEncode(col), tr),
     x_test |-> Take(CsvFeatures(Len(col)), te), y_test |-> Take(MapEncode(col), te)]

SetData(d) ==
    /\ species = d.species
    /\ y = d.y
    /\ train_rows = d.train_rows
    /\ test_rows = d.test_rows
    /\ x_train = d.x_train
    /\ y_train = d.y_train
    /\ x_test = d.x_test
    /\ y_test = d.y_test

NoData == Prepared(<< >>, << >>, << >>)
\* range(20), cut at MaxEpochs for the loops that shuffle
Epochs == IF IsReg THEN NumEpochs ELSE Min(NumEpochs, MaxEpochs)
HasAccuracy == cell \in {"3.3", "3.4"}
HasValidation == cell = "3.4"

\* b_y of a batch
Targets(batch) ==
    [k \in 1 .. Len(batch) |-> IF IsReg THEN RegY(batch[k], seed) ELSE y_train[batch[k]]]

\* a training loader built over the whole t_dataset, not over the train subset
TrainSet_Whole ==
    IF cell = "2.4" THEN Iota(reg_len) ELSE Iota(Len(x_train))

\* The Dataset each loader was built on, as sample indices (for CL1 in the
\* order the dataset holds them, the original order unless another is given).
TrainSet ==
    IF cell = "2.4" THEN (IF train_idx = << >> THEN Iota(reg_len) ELSE train_idx)
    ELSE IF cell = "3.4" THEN train_idx
    ELSE Iota(Len(x_train))

ValSet == val_idx

\* a regression loader built with batch_size=1
TrainBatchSize_One == IF cell = "2.4" THEN Min(1, reg_len) ELSE BatchSize

TrainBatchSize == IF cell = "2.4" THEN reg_len ELSE BatchSize

TrainShuffle == cell # "2.4"

(* --------------------------- collaborators ---------------------------- *)
\* a loader built with drop_last=True: a short last batch is never yielded
LoaderIter_DropLast(ds, bs, shuffle) ==
    IF shuffle THEN Deals(Range(ds), [k \in 1 .. (Len(ds) \div bs) |-> bs])
    ELSE {SubSeq(ds, 1, (Len(ds) \div bs) * bs)}

\* DataLoader.__iter__: the sampler's order over the dataset (a random
\* permutation when shuffle=True, the dataset's own order otherwise).  Of the
\* permutations that put the same samples into the same batches one is kept:
\* the order of the rows inside a batch changes no loss, gradient or count.
LoaderIter(ds, bs, shuffle) ==
    IF shuffle THEN Deals(Range(ds), BatchSizes(Len(ds), bs)) ELSE {ds}

\* a loader that yields one sample less than batch_size per batch
TakeLen_OneShort(itr, bs) == Min(IF bs > 1 THEN bs - 1 ELSE 1, Len(itr))

\* DataLoader.__next__: the next batch_size indices, the last batch may be short
\* (drop_last=False).
TakeLen(itr, bs) == Min(bs, Len(itr))

NextBatch(itr, bs) == SubSeq(itr, 1, TakeLen(itr, bs))

RestIter(itr, bs) == SubSeq(itr, TakeLen(itr, bs) + 1, Len(itr))

\* model(b_x).  LinearRegressor: w*x + b, parameters <<w, b>> in units of 0.01.
\* LogisticRegressor: one score per class, parameters one weight per class in
\* units of 0.1 (the four features are abstracted to one, the bias is dropped).
Scores(p, xs) == [k \in 1 .. Len(xs) |-> [c \in 1 .. NumClasses |-> p[c] * xs[k]]]

Forward(p, batch) ==
    IF IsReg
    THEN [k \in 1 .. Len(batch) |-> p[1] * RegX(batch[k]) + p[2]]
    ELSE Scores(p, Take(x_train, batch))

\* an argmax that keeps the last of the largest scores
ArgMax_Last(scores) ==
    CHOOSE c \in Classes :
        /\ \A d \in Classes : scores[d + 1] <= scores[c + 1]
        /\ \A d \in Classes : d > c => scores[d + 1] < scores[c + 1]

\* scores.argmax(): the class of the largest score, the first one on ties
ArgMax(scores) ==
    CHOOSE c \in Classes :
        /\ \A d \in Classes : scores[d + 1] <= scores[c + 1]
        /\ \A d \in Classes : d < c => scores[d + 1] < scores[c + 1]

\* pred.argmax(dim=1)
HardPreds(pr) == [k \in 1 .. Len(pr) |-> ArgMax(pr[k])]

\* sum(pred.argmax(dim=1) == b_y).item()
CountCorrect(pr, targets) ==
    ISum([k \in 1 .. Len(pr) |-> IF HardPreds(pr)[k] = targets[k] THEN 1 ELSE 0])

\* loss_fn(pred, b_y), reduction 'mean'.  MSELoss: mean squared error (in units
\* of 0.0001).  CrossEntropyLoss is abstracted to the multiclass margin
\* max_c score_c - score_y, which like it is >= 0, is the mean over the batch and
\* decreases when the true class's score grows.
LossFn(pr, targets) ==
    IF IsReg
    THEN Rat(ISum([k \in 1 .. Len(pr) |-> (pr[k] - 100 * targets[k]) * (pr[k] - 100 * targets[k])]), Len(pr))
    ELSE Rat(ISum([k \in 1 .. Len(pr) |-> pr[k][HardPreds(pr)[k] + 1] - pr[k][targets[k] + 1]]), Len(pr))

\* d loss / d parameters of the batch's loss: what loss.backward() computes
BatchGrad(pr, batch) ==
    LET t == Targets(batch)
        n == Len(batch)
    IN  IF IsReg
        THEN << Rat(ISum([k \in 1 .. n |-> 2 * (pr[k] - 100 * t[k]) * RegX(batch[k])]), n),
                Rat(ISum([k \in 1 .. n |-> 2 * (pr[k] - 100 * t[k])]), n) >>
        ELSE [c \in 1 .. NumClasses |->
                Rat(ISum([k \in 1 .. n |->
                        ((IF HardPreds(pr)[k] = c - 1 THEN 1 ELSE 0)
                         - (IF t[k] = c - 1 THEN 1 ELSE 0)) * ClsX(batch[k])]), n)]

\* loss.backward(): autograd ADDS the batch's gradient to .grad (sets it when
\* .grad is None)
Backward(g, pr, batch) ==
    IF g = << >> THEN BatchGrad(pr, batch)
    ELSE [j \in 1 .. Len(g) |-> RAdd(g[j], BatchGrad(pr, batch)[j])]

\* optimizer.step().  SGD(lr=0.01): p - lr*grad, in fixed point.  Adam(lr=0.1):
\* a step of size lr against the gradient's sign (Adam's moment estimates are
\* abstracted away; its first step is exactly this).  A parameter whose .grad
\* is None is skipped.
OptimizerStep(p, g) ==
    IF g = << >> THEN p
    ELSE IF IsReg
    THEN [j \in 1 .. Len(p) |-> p[j] - (g[j][1] \div (g[j][2] * 100))]
    ELSE [j \in 1 .. Len(p) |-> p[j] - Sign(g[j][1])]

\* optimizer.zero_grad(): every .grad becomes zero
ZeroGrad(p) == [j \in 1 .. Len(p) |-> RZero]

\* nn.Linear's random initial parameters
InitParams ==
    IF IsReg THEN {<<w, c>> : w \in {-50, 50}, c \in {0, 50}}
    ELSE {<<0, 0, 0>>, <<1, 0, -1>>}

\* '{:.3f}'.format(v): v rounded to the given number of decimals, ties to even
RECURSIVE Pow10(_)
Pow10(k) == IF k = 0 THEN 1 ELSE 10 * Pow10(k - 1)

FormatFixed(v, digits) ==
    LET num == v[1] * Pow10(digits)
        q == num \div v[2]
        r == num % v[2]
        up == 2 * r > v[2] \/ (2 * r = v[2] /\ q % 2 = 1)
    IN  Rat(IF up THEN q + 1 ELSE q, Pow10(digits))

(* ------------------------------ metrics ------------------------------- *)
\* the sum of the losses, not divided by their number
Mean_NoDivide(ls) == RSum(ls)

\* sum(losses)/len(losses)
Mean(ls) == RDivInt(RSum(ls), Len(ls))

\* the length of the whole t_dataset, as section 3.3 uses it
TrainDatasetLen_Whole == IF IsReg THEN reg_len ELSE TLen

\* len(t_dataset) in section 3.3, len(train_t_dataset) in section 3.4
TrainDatasetLen == Len(TrainSet)

\* an epoch loss that weights each batch loss by the batch's number of samples
EpochLoss_SampleWeighted ==
    LET es == SelectSeq(log, LAMBDA e : e.pass = "train")
    IN  RDivInt(RSum([k \in 1 .. Len(es) |-> Rat(es[k].loss[1] * Len(es[k].batch), es[k].loss[2])]),
                ISum([k \in 1 .. Len(es) |-> Len(es[k].batch)]))

\* the loss an epoch reports: sum(losses_in_epoch)/len(losses_in_epoch) inside
\* the print call of CL1, avg_loss, or train_avg_loss
EpochLoss ==
    IF cell = "2.4" THEN Mean(losses)
    ELSE IF cell = "3.4" THEN train_avg_loss
    ELSE avg_loss

\* n_correct/len(dataset)
Ratio(n, len) == Rat(n, len)

\* what the loss step records about the batch it has just evaluated
LogEntry(pass, batch, pr, l) ==
    [pass |-> pass, batch |-> batch,
     hard |-> IF IsReg THEN << >> ELSE HardPreds(pr),
     labels |-> Targets(batch), loss |-> l,
     param |-> param, steps |-> opt_steps]

\* the arguments of the epoch's print call
ReportFields ==
    IF cell \in {"2.4", "3.2"} THEN <<EpochLoss>>
    ELSE IF cell = "3.3" THEN <<FormatFixed(avg_loss, 3), FormatFixed(accuracy, 2)>>
    ELSE <<FormatFixed(train_avg_loss, 3), FormatFixed(val_avg_loss, 3),
           FormatFixed(train_accuracy, 2), FormatFixed(val_accuracy, 2)>>

(* ------------------------------- state -------------------------------- *)
\* nothing of a training cell has run yet
LoopNotStarted ==
    /\ val_idx = << >>
    /\ it = << >>
    /\ b = << >>
    /\ pred = << >>
    /\ loss = << >>
    /\ graph = FALSE
    /\ losses = << >>
    /\ n_correct = 0
    /\ grad = << >>
    /\ opt_steps = 0
    /\ avg_loss = << >>
    /\ accuracy = << >>
    /\ train_avg_loss = << >>
    /\ train_accuracy = << >>
    /\ val_avg_loss = << >>
    /\ val_accuracy = << >>
    /\ out_last = [epoch |-> -1, fields |-> << >>]
    /\ out_count = 0
    /\ log = << >>
    /\ ops = << >>

NotStarted ==
    /\ train_idx = << >>
    /\ LoopNotStarted

\* sections 3.3 and 3.4 start with the model and the optimizer that the
\* section before trained; CL1 and section 3.2 create theirs for the first time
PrevParams(c, d) ==
    IF c \in {"3.3", "3.4"} THEN (IF d % 2 = 0 THEN <<1, 0, -1>> ELSE <<0, 1, -1>>)
    ELSE << >>

\* the optimizer steps of the section before
PrevSteps == Min(NumEpochs, MaxEpochs) * Len(BatchSizes(TLen, BatchSize))

Init ==
    /\ cell \in {"2.4", "3.2", "3.3", "3.4"}
    /\ pc = IF cell = "3.4" THEN "split" ELSE "loader"
    /\ epoch = 0
    /\ reg_len \in IF cell = "2.4" THEN 0 .. RegLen ELSE {0}
    /\ seed \in 0 .. MaxSeed
    /\ param = << >>
    /\ NotStarted
    /\ error = ""
    /\ model_obj = 0
    /\ opt_obj = 0
    /\ prev_param = PrevParams(cell, seed)
    /\ prev_steps = IF prev_param = << >> THEN 0 ELSE PrevSteps
    /\ IF cell = "2.4" THEN SetData(NoData)
       ELSE \/ SetData(Prepared(CsvSpecies(NRows, seed), Iota(TLen),
                                [i \in 1 .. TestLen |-> TLen + i]))
            \/ SetData(NoData)
    /\ preds = << >>
    /\ acc = << >>
    /\ cm = << >>

(* --------------------------- cell set-up ------------------------------ *)
\* a reset that creates a new model and keeps the optimizer of the old one
CreateModel_KeepOptimizer ==
    /\ pc = "create"
    /\ model_obj' = model_obj + 1
    /\ opt_obj' = opt_obj
    /\ param' \in InitParams
    /\ grad' = << >>
    /\ opt_steps' = prev_steps
    /\ epoch' = 0
    /\ out_count' = 0
    /\ pc' = "epoch"
    /\ UNCHANGED <<cell, reg_len, seed, dataVars, testVars, prev_param, prev_steps, error, splitVars, batchVars, accVars, metricVars, out_last, log, ops>>

\* model = ...Regressor(); optimizer = optim.SGD / Adam(model.parameters(), ...):
\* the name 'model' is bound to a new object with newly drawn parameters, the
\* name 'optimizer' to a new optimizer that holds this object's parameters and
\* has taken no step
CreateModel ==
    /\ pc = "create"
    /\ model_obj' = model_obj + 1
    /\ opt_obj' = model_obj'
    /\ param' \in InitParams
    /\ grad' = << >>
    /\ opt_steps' = 0
    /\ epoch' = 0
    /\ out_count' = 0
    /\ pc' = "epoch"
    /\ UNCHANGED <<cell, reg_len, seed, dataVars, testVars, prev_param, prev_steps, error, splitVars, batchVars, accVars, metricVars, out_last, log, ops>>

\* train_t_dataset, val_t_dataset = random_split(t_dataset, [90, 15]): a random
\* permutation of the indices, cut at the lengths (one permutation is kept for
\* each assignment of samples to subsets).  Lengths that do not sum to the
\* length of the dataset are a ValueError.
RandomSplit ==
    /\ pc = "split"
    /\ IF TrainLen + ValLen # Len(x_train)
       THEN /\ error' = "ValueError"
            /\ pc' = "aborted"
            /\ UNCHANGED splitVars
       ELSE /\ \E p \in Deals(1 .. Len(x_train), <<TrainLen, ValLen>>) :
                  /\ train_idx' = SubSeq(p, 1, TrainLen)
                  /\ val_idx' = SubSeq(p, TrainLen + 1, TrainLen + ValLen)
            /\ pc' = IF cell = "prep" THEN "predict" ELSE "loader"
            /\ error' = error
    /\ UNCHANGED <<cfgVars, epoch, modelVars, batchVars, accVars, metricVars, outVars, log, ops>>

\* DataLoader(dataset, batch_size=..., shuffle=...).  batch_size = len(x) = 0 is
\* a ValueError.  Whether the RandomSampler of a shuffling loader accepts an
\* empty dataset depends on the torch release: it raises ValueError, or the
\* loader is built and yields no batch.
MakeLoader ==
    /\ pc = "loader"
    /\ \/ /\ TrainBatchSize <= 0 \/ (TrainShuffle /\ Len(TrainSet) = 0)
          /\ error' = "ValueError"
          /\ pc' = "aborted"
       \/ /\ TrainBatchSize > 0
          /\ error' = error
          /\ pc' = "create"
    /\ UNCHANGED <<cfgVars, epoch, splitVars, modelVars, batchVars, accVars, metricVars, outVars, log, ops>>

(* --------------------------- training pass ---------------------------- *)
\* for epoch in range(20): losses = []; n_correct = 0
EpochStart ==
    /\ pc = "epoch"
    /\ epoch < Epochs
    /\ losses' = << >>
    /\ n_correct' = IF HasAccuracy THEN 0 ELSE n_correct
    /\ log' = << >>
    /\ ops' = << >>
    /\ pc' = "iter"
    /\ UNCHANGED <<cfgVars, error, epoch, splitVars, modelVars, batchVars, metricVars, outVars>>

\* a loop that also stops once a batch loss has reached zero
LoopExit_EarlyStop ==
    /\ pc = "epoch"
    /\ epoch >= Epochs \/ (epoch > 0 /\ loss = RZero)
    /\ pc' = "cell_done"
    /\ UNCHANGED <<cfgVars, error, epoch, splitVars, modelVars, batchVars, accVars, metricVars, outVars, log, ops>>

\* range(20) is exhausted: the for statement ends
LoopExit ==
    /\ pc = "epoch"
    /\ epoch >= Epochs
    /\ pc' = "cell_done"
    /\ UNCHANGED <<cfgVars, error, epoch, splitVars, modelVars, batchVars, accVars, metricVars, outVars, log, ops>>

\* a loader that shuffles by reordering the dataset it was given
TrainIter_ShuffleInPlace ==
    /\ pc = "iter"
    /\ it' \in LoaderIter(TrainSet, TrainBatchSize, TrainShuffle)
    /\ train_idx' = IF cell = "3.4" THEN it' ELSE train_idx
    /\ pc' = "fetch"
    /\ UNCHANGED <<cfgVars, error, epoch, val_idx, modelVars, b, pred, loss, graph, accVars, metricVars, outVars, log, ops>>

\* for ... in data_loader: the loader's iterator is created
TrainIter ==
    /\ pc = "iter"
    /\ it' \in LoaderIter(TrainSet, TrainBatchSize, TrainShuffle)
    /\ pc' = "fetch"
    /\ UNCHANGED <<cfgVars, error, epoch, splitVars, modelVars, b, pred, loss, graph, accVars, metricVars, outVars, log, ops>>

\* the iterator yields the next batch, or the inner for statement ends
TrainFetch ==
    /\ pc = "fetch"
    /\ IF it # << >>
       THEN /\ b' = NextBatch(it, TrainBatchSize)
            /\ it' = RestIter(it, TrainBatchSize)
            /\ ops' = << >>
            /\ pc' = "forward"
       ELSE /\ UNCHANGED <<b, it, ops>>
            /\ pc' = IF IsReg THEN "print" ELSE "train_metrics"
    /\ UNCHANGED <<cfgVars, error, epoch, splitVars, modelVars, pred, loss, graph, accVars, metricVars, outVars, log>>

\* pred = model(b_x)
TrainForward ==
    /\ pc = "forward"
    /\ pred' = Forward(param, b)
    /\ graph' = TRUE
    /\ ops' = Append(ops, "forward")
    /\ pc' = "loss"
    /\ UNCHANGED <<cfgVars, error, epoch, splitVars, modelVars, it, b, loss, accVars, metricVars, outVars, log>>

\* loss = loss_fn(pred, b_y)
TrainLoss ==
    /\ pc = "loss"
    /\ loss' = LossFn(pred, Targets(b))
    /\ log' = Append(log, LogEntry("train", b, pred, loss'))
    /\ ops' = Append(ops, "loss")
    /\ pc' = "append"
    /\ UNCHANGED <<cfgVars, error, epoch, splitVars, modelVars, it, b, pred, graph, accVars, metricVars, outVars>>

\* losses.append(loss.item())
TrainAppend ==
    /\ pc = "append"
    /\ losses' = Append(losses, loss)
    /\ pc' = IF HasAccuracy THEN "count" ELSE "backward"
    /\ UNCHANGED <<cfgVars, error, epoch, splitVars, modelVars, batchVars, n_correct, metricVars, outVars, log, ops>>

\* n_correct += sum(pred.argmax(dim=1) == b_y).item()
TrainCount ==
    /\ pc = "count"
    /\ n_correct' = n_correct + CountCorrect(pred, Targets(b))
    /\ pc' = "backward"
    /\ UNCHANGED <<cfgVars, error, epoch, splitVars, modelVars, batchVars, losses, metricVars, outVars, log, ops>>

\* loss.backward()
TrainBackward ==
    /\ pc = "backward"
    /\ graph
    /\ grad' = Backward(grad, pred, b)
    /\ graph' = FALSE
    /\ ops' = Append(ops, "backward")
    /\ pc' = "step"
    /\ UNCHANGED <<cfgVars, error, epoch, splitVars, param, opt_steps, it, b, pred, loss, accVars, metricVars, outVars, log>>

\* a loop body that calls optimizer.step() twice
TrainStep_Twice ==
    /\ pc = "step"
    /\ param' = OptimizerStep(OptimizerStep(param, grad), grad)
    /\ opt_steps' = opt_steps + 2
    /\ ops' = ops \o <<"step", "step">>
    /\ pc' = "zero_grad"
    /\ UNCHANGED <<cfgVars, error, epoch, splitVars, grad, batchVars, accVars, metricVars, outVars, log>>

\* optimizer.step(): the optimizer updates the parameters it was built with.
\* Those are the parameters of 'model' when the optimizer was built from it;
\* the parameters of the model of the section before had their gradients
\* cleared by that section's last zero_grad.
TrainStep ==
    /\ pc = "step"
    /\ IF opt_obj = model_obj
       THEN /\ param' = OptimizerStep(param, grad)
            /\ prev_param' = prev_param
       ELSE /\ param' = param
            /\ prev_param' = OptimizerStep(prev_param, ZeroGrad(prev_param))
    /\ opt_steps' = opt_steps + 1
    /\ ops' = Append(ops, "step")
    /\ pc' = "zero_grad"
    /\ UNCHANGED <<cell, reg_len, seed, dataVars, testVars, model_obj, opt_obj, prev_steps, error, epoch, splitVars, grad, batchVars, accVars, metricVars, outVars, log>>

\* a gradient clear that zeroes the parameters' data as well
TrainZeroGrad_Params ==
    /\ pc = "zero_grad"
    /\ grad' = ZeroGrad(param)
    /\ param' = [j \in 1 .. Len(param) |-> 0]
    /\ ops' = Append(ops, "zero_grad")
    /\ pc' = "fetch"
    /\ UNCHANGED <<cfgVars, error, epoch, splitVars, opt_steps, batchVars, accVars, metricVars, outVars, log>>

\* a zero_grad() that reaches other parameters than the model's: the call is
\* made, the model's gradients stay
TrainZeroGrad_Stale ==
    /\ pc = "zero_grad"
    /\ ops' = Append(ops, "zero_grad")
    /\ pc' = "fetch"
    /\ UNCHANGED <<cfgVars, error, epoch, splitVars, modelVars, batchVars, accVars, metricVars, outVars, log>>

\* optimizer.zero_grad()
TrainZeroGrad ==
    /\ pc = "zero_grad"
    /\ grad' = ZeroGrad(param)
    /\ ops' = Append(ops, "zero_grad")
    /\ pc' = "fetch"
    /\ UNCHANGED <<cfgVars, error, epoch, splitVars, param, opt_steps, batchVars, accVars, metricVars, outVars, log>>

\* a loop that validates in the first epoch only
TrainMetrics_ValidateOnce ==
    /\ pc = "train_metrics"
    /\ Len(losses) > 0
    /\ TrainDatasetLen > 0
    /\ IF cell = "3.4"
       THEN /\ train_accuracy' = Ratio(n_correct, TrainDatasetLen)
            /\ train_avg_loss' = Mean(losses)
            /\ UNCHANGED <<accuracy, avg_loss>>
       ELSE /\ accuracy' = IF HasAccuracy THEN Ratio(n_correct, TrainDatasetLen) ELSE accuracy
            /\ avg_loss' = Mean(losses)
            /\ UNCHANGED <<train_accuracy, train_avg_loss>>
    /\ pc' = IF HasValidation /\ epoch = 0 THEN "val_reset" ELSE "print"
    /\ UNCHANGED <<cfgVars, error, epoch, splitVars, modelVars, batchVars, accVars, val_avg_loss, val_accuracy, outVars, log, ops>>

\* metrics that divide by max(len, 1): an empty epoch reports zeros and goes on
TrainMetrics_NoBatchIsZero ==
    /\ pc = "train_metrics"
    /\ IF cell = "3.4"
       THEN /\ train_accuracy' = IF TrainDatasetLen = 0 THEN RZero ELSE Ratio(n_correct, TrainDatasetLen)
            /\ train_avg_loss' = IF Len(losses) = 0 THEN RZero ELSE Mean(losses)
            /\ UNCHANGED <<accuracy, avg_loss>>
       ELSE /\ accuracy' = IF ~HasAccuracy THEN accuracy
                           ELSE IF TrainDatasetLen = 0 THEN RZero
                           ELSE Ratio(n_correct, TrainDatasetLen)
            /\ avg_loss' = IF Len(losses) = 0 THEN RZero ELSE Mean(losses)
            /\ UNCHANGED <<train_accuracy, train_avg_loss>>
    /\ pc' = IF HasValidation THEN "val_reset" ELSE "print"
    /\ UNCHANGED <<cfgVars, error, epoch, splitVars, modelVars, batchVars, accVars, val_avg_loss, val_accuracy, outVars, log, ops>>

\* accuracy = n_correct/len(t_dataset); avg_loss = sum(losses)/len(losses)
\* Either division raises ZeroDivisionError when its divisor is 0: the first
\* before anything is assigned, the second after the accuracy is.
TrainMetrics ==
    /\ pc = "train_metrics"
    /\ IF HasAccuracy /\ TrainDatasetLen = 0
       THEN /\ error' = "ZeroDivisionError"
            /\ pc' = "aborted"
            /\ UNCHANGED metricVars
       ELSE /\ IF cell = "3.4"
               THEN /\ train_accuracy' = Ratio(n_correct, TrainDatasetLen)
                    /\ train_avg_loss' = IF Len(losses) = 0 THEN train_avg_loss ELSE Mean(losses)
                    /\ UNCHANGED <<accuracy, avg_loss>>
               ELSE /\ accuracy' = IF HasAccuracy THEN Ratio(n_correct, TrainDatasetLen) ELSE accuracy
                    /\ avg_loss' = IF Len(losses) = 0 THEN avg_loss ELSE Mean(losses)
                    /\ UNCHANGED <<train_accuracy, train_avg_loss>>
            /\ error' = IF Len(losses) = 0 THEN "ZeroDivisionError" ELSE error
            /\ pc' = IF Len(losses) = 0 THEN "aborted"
                     ELSE IF HasValidation THEN "val_reset" ELSE "print"
            /\ UNCHANGED <<val_avg_loss, val_accuracy>>
    /\ UNCHANGED <<cfgVars, epoch, splitVars, modelVars, batchVars, accVars, outVars, log, ops>>

(* -------------------------- validation pass --------------------------- *)
\* a validation pass that goes on with the training pass's accumulators
ValReset_Forgot ==
    /\ pc = "val_reset"
    /\ pc' = "val_iter"
    /\ UNCHANGED <<cfgVars, error, epoch, splitVars, modelVars, batchVars, accVars, metricVars, outVars, log, ops>>

\* losses = []; n_correct = 0 (before the validation loop)
ValReset ==
    /\ pc = "val_reset"
    /\ losses' = << >>
    /\ n_correct' = 0
    /\ pc' = "val_iter"
    /\ UNCHANGED <<cfgVars, error, epoch, splitVars, modelVars, batchVars, metricVars, outVars, log, ops>>

\* with torch.no_grad(): for ... in val_t_data_loader (no shuffle)
ValIter ==
    /\ pc = "val_iter"
    /\ it' \in LoaderIter(ValSet, ValBatchSize, FALSE)
    /\ pc' = "val_fetch"
    /\ UNCHANGED <<cfgVars, error, epoch, splitVars, modelVars, b, pred, loss, graph, accVars, metricVars, outVars, log, ops>>

ValFetch ==
    /\ pc = "val_fetch"
    /\ IF it # << >>
       THEN /\ b' = NextBatch(it, ValBatchSize)
            /\ it' = RestIter(it, ValBatchSize)
            /\ ops' = << >>
            /\ pc' = "val_forward"
       ELSE /\ UNCHANGED <<b, it, ops>>
            /\ pc' = "val_metrics"
    /\ UNCHANGED <<cfgVars, error, epoch, splitVars, modelVars, pred, loss, graph, accVars, metricVars, outVars, log>>

\* the validation forward pass without torch.no_grad()
ValForward_NoNoGrad ==
    /\ pc = "val_forward"
    /\ pred' = Forward(param, b)
    /\ graph' = TRUE
    /\ ops' = Append(ops, "forward")
    /\ pc' = "val_loss"
    /\ UNCHANGED <<cfgVars, error, epoch, splitVars, modelVars, it, b, loss, accVars, metricVars, outVars, log>>

\* pred = model(b_x) under no_grad: no autograd graph is recorded
ValForward ==
    /\ pc = "val_forward"
    /\ pred' = Forward(param, b)
    /\ graph' = FALSE
    /\ ops' = Append(ops, "forward")
    /\ pc' = "val_loss"
    /\ UNCHANGED <<cfgVars, error, epoch, splitVars, modelVars, it, b, loss, accVars, metricVars, outVars, log>>

\* loss = loss_fn(pred, b_y)
ValLoss ==
    /\ pc = "val_loss"
    /\ loss' = LossFn(pred, Targets(b))
    /\ log' = Append(log, LogEntry("val", b, pred, loss'))
    /\ ops' = Append(ops, "loss")
    /\ pc' = "val_append"
    /\ UNCHANGED <<cfgVars, error, epoch, splitVars, modelVars, it, b, pred, graph, accVars, metricVars, outVars>>

\* losses.append(loss.item())
ValAppend ==
    /\ pc = "val_append"
    /\ losses' = Append(losses, loss)
    /\ pc' = "val_count"
    /\ UNCHANGED <<cfgVars, error, epoch, splitVars, modelVars, batchVars, n_correct, metricVars, outVars, log, ops>>

\* a validation body that goes on like the training body: backward, step,
\* zero_grad
ValCount_Train ==
    /\ pc = "val_count"
    /\ n_correct' = n_correct + CountCorrect(pred, Targets(b))
    /\ param' = OptimizerStep(param, Backward(grad, pred, b))
    /\ grad' = ZeroGrad(param)
    /\ opt_steps' = opt_steps + 1
    /\ pc' = "val_fetch"
    /\ UNCHANGED <<cfgVars, error, epoch, splitVars, batchVars, losses, metricVars, outVars, log, ops>>

\* n_correct += sum(pred.argmax(dim=1) == b_y).item()
ValCount ==
    /\ pc = "val_count"
    /\ n_correct' = n_correct + CountCorrect(pred, Targets(b))
    /\ pc' = "val_fetch"
    /\ UNCHANGED <<cfgVars, error, epoch, splitVars, modelVars, batchVars, losses, metricVars, outVars, log, ops>>

\* val_accuracy = n_correct/len(val_t_dataset); val_avg_loss = sum(losses)/len(losses)
ValMetrics ==
    /\ pc = "val_metrics"
    /\ Len(losses) > 0
    /\ Len(ValSet) > 0
    /\ val_accuracy' = Ratio(n_correct, Len(ValSet))
    /\ val_avg_loss' = Mean(losses)
    /\ pc' = "print"
    /\ UNCHANGED <<cfgVars, error, epoch, splitVars, modelVars, batchVars, accVars, avg_loss, accuracy, train_avg_loss, train_accuracy, outVars, log, ops>>

\* One evaluation pass over a dataset with the given parameters: the batches of
\* the loader in order, the mean of their losses, the share of correct samples.
RECURSIVE Batches(_, _)
Batches(ds, bs) ==
    IF ds = << >> THEN << >> ELSE <<NextBatch(ds, bs)>> \o Batches(RestIter(ds, bs), bs)

EvaluatePass(p, ds, bs) ==
    LET B == Batches(ds, bs)
        ls == [i \in 1 .. Len(B) |-> LossFn(Forward(p, B[i]), Targets(B[i]))]
        nc == ISum([i \in 1 .. Len(B) |-> CountCorrect(Forward(p, B[i]), Targets(B[i]))])
    IN  [loss |-> Mean(ls), accuracy |-> Ratio(nc, Len(ds))]

(* ------------------------- end of the epoch --------------------------- *)
\* a loop that reports only every other epoch
ReportEpoch_OddSilent ==
    /\ pc = "print"
    /\ Len(losses) > 0
    /\ out_last' = IF epoch % 2 = 0 THEN [epoch |-> epoch, fields |-> ReportFields] ELSE out_last
    /\ out_count' = IF epoch % 2 = 0 THEN out_count + 1 ELSE out_count
    /\ epoch' = epoch + 1
    /\ pc' = "epoch"
    /\ UNCHANGED <<cfgVars, error, splitVars, modelVars, batchVars, accVars, metricVars, log, ops>>

\* print(...format(epoch, ...)); range(20) moves on to the next epoch
ReportEpoch ==
    /\ pc = "print"
    /\ Len(losses) > 0
    /\ out_last' = [epoch |-> epoch, fields |-> ReportFields]
    /\ out_count' = out_count + 1
    /\ epoch' = epoch + 1
    /\ pc' = "epoch"
    /\ UNCHANGED <<cfgVars, error, splitVars, modelVars, batchVars, accVars, metricVars, log, ops>>

\* the cell has run to its end
Finish ==
    /\ pc = "cell_done"
    /\ pc' = "done"
    /\ UNCHANGED <<cfgVars, error, epoch, splitVars, modelVars, batchVars, accVars, metricVars, outVars, log, ops>>

Next ==
    \/ RandomSplit
    \/ MakeLoader
    \/ CreateModel
    \/ EpochStart
    \/ LoopExit
    \/ TrainIter
    \/ TrainFetch
    \/ TrainForward
    \/ TrainLoss
    \/ TrainAppend
    \/ TrainCount
    \/ TrainBackward
    \/ TrainStep
    \/ TrainZeroGrad
    \/ TrainMetrics
    \/ ValReset
    \/ ValIter
    \/ ValFetch
    \/ ValForward
    \/ ValLoss
    \/ ValAppend
    \/ ValCount
    \/ ValMetrics
    \/ ReportEpoch
    \/ Finish

Spec == Init /\ [][Next]_vars

\* the thread of control is never descheduled for ever
FairSpec == Spec /\ WF_vars(Next)

(* ------------------- data preparation and assessment ------------------ *)
\* A second kind of run: the data cells (encoding, the two splits) and the
\* assessment cells, on a csv whose species column may hold a name
\* encode_species does not know, with the model any training has left behind.
BadSpecies == "Iris-setosa"

CsvColumns(d) ==
    {CsvSpecies(NRows, d)} \cup
    {[CsvSpecies(NRows, d) EXCEPT ![r] = BadSpecies] : r \in 1 .. NRows}

\* parameters a trained LogisticRegressor may hold
TrainedParams == {<<0, 0, 0>>, <<1, 0, -1>>, <<0, 1, -1>>, <<-1, 0, 1>>, <<-1, 1, 0>>}

PrepInit ==
    /\ cell = "prep"
    /\ pc = "encode"
    /\ epoch = 0
    /\ reg_len = 0
    /\ seed \in 0 .. MaxSeed
    /\ param \in TrainedParams
    /\ NotStarted
    /\ error = ""
    /\ model_obj = 1
    /\ opt_obj = 1
    /\ prev_param = << >>
    /\ prev_steps = 0
    /\ species \in CsvColumns(seed)
    /\ y = << >>
    /\ train_rows = << >>
    /\ test_rows = << >>
    /\ x_train = << >>
    /\ y_train = << >>
    /\ x_test = << >>
    /\ y_test = << >>
    /\ preds = << >>
    /\ acc = << >>
    /\ cm = << >>

loopVars == <<epoch, modelVars, batchVars, accVars, metricVars, outVars, log, ops>>

\* temp = map(encode_species, dataset['species'].values); y = np.array(list(temp))
EncodeLabels ==
    /\ pc = "encode"
    /\ IF MapRaises(species)
       THEN /\ error' = "ValueError"
            /\ pc' = "aborted"
            /\ y' = y
       ELSE /\ y' = MapEncode(species)
            /\ pc' = "tts"
            /\ error' = error
    /\ UNCHANGED <<cell, reg_len, seed, bindVars, species, train_rows, test_rows, x_train, y_train,
                   x_test, y_test, testVars, splitVars, loopVars>>

\* a split that shuffles the features and leaves the labels in csv order
TrainTestSplit_LabelsInPlace ==
    /\ pc = "tts"
    /\ \E p \in Deals(1 .. Len(y), <<TestLen, TLen>>) :
          /\ test_rows' = SubSeq(p, 1, TestLen)
          /\ train_rows' = SubSeq(p, TestLen + 1, TestLen + TLen)
          /\ x_train' = Take(CsvFeatures(Len(species)), train_rows')
          /\ x_test' = Take(CsvFeatures(Len(species)), test_rows')
          /\ y_train' = SubSeq(y, 1, TLen)
          /\ y_test' = SubSeq(y, TLen + 1, TLen + TestLen)
    /\ pc' = "split"
    /\ UNCHANGED <<cell, reg_len, seed, bindVars, species, y, testVars, splitVars, loopVars, error>>

\* x_train, x_test, y_train, y_test = train_test_split(x, y, test_size=0.3,
\* random_state=10): one permutation of the rows, its first part the test
\* indices and the rest the training indices, both arrays indexed by the same
\* index arrays.  Which permutation the seed 10 gives is not modelled: any.
TrainTestSplit ==
    /\ pc = "tts"
    /\ \E p \in Deals(1 .. Len(y), <<TestLen, TLen>>) :
          /\ test_rows' = SubSeq(p, 1, TestLen)
          /\ train_rows' = SubSeq(p, TestLen + 1, TestLen + TLen)
          /\ x_train' = Take(CsvFeatures(Len(species)), train_rows')
          /\ x_test' = Take(CsvFeatures(Len(species)), test_rows')
          /\ y_train' = Take(y, train_rows')
          /\ y_test' = Take(y, test_rows')
    /\ pc' = "split"
    /\ UNCHANGED <<cell, reg_len, seed, bindVars, species, y, testVars, splitVars, loopVars, error>>

\* a test cell that runs model = LogisticRegressor() again before predicting
Predict_ResetModel ==
    /\ pc = "predict"
    /\ param' \in InitParams
    /\ preds' = HardPreds(Scores(param', x_test))
    /\ pc' = "accuracy"
    /\ UNCHANGED <<cell, reg_len, seed, bindVars, dataVars, acc, cm, splitVars, epoch, grad, opt_steps, batchVars, accVars, metricVars, outVars, log, ops, error>>

\* preds = model(test_samples).argmax(dim=1)
Predict ==
    /\ pc = "predict"
    /\ preds' = HardPreds(Scores(param, x_test))
    /\ pc' = "accuracy"
    /\ UNCHANGED <<cell, reg_len, seed, bindVars, dataVars, acc, cm, splitVars, loopVars, error>>

\* acc = sum(preds == test_labels).item()/len(preds)
TestAccuracy ==
    /\ pc = "accuracy"
    /\ Len(preds) > 0
    /\ acc' = Ratio(ISum([k \in 1 .. Len(preds) |-> IF preds[k] = y_test[k] THEN 1 ELSE 0]),
                    Len(preds))
    /\ pc' = "confusion"
    /\ UNCHANGED <<cell, reg_len, seed, bindVars, dataVars, preds, cm, splitVars, loopVars, error>>

\* a matrix that marks the cells that occur instead of counting them
confusion_matrix_Marks(y_true, y_pred) ==
    LET labels == SortedSeq(Range(y_true) \cup Range(y_pred))
    IN  [i \in 1 .. Len(labels) |-> [j \in 1 .. Len(labels) |->
            IF \E k \in 1 .. Len(y_true) : y_true[k] = labels[i] /\ y_pred[k] = labels[j]
            THEN 1 ELSE 0]]

\* sklearn.metrics.confusion_matrix(y_true, y_pred) with labels=None: the
\* labels are the sorted values that occur in either vector, and entry i, j
\* counts the samples whose first-argument value is the i-th label and whose
\* second-argument value is the j-th
confusion_matrix(y_true, y_pred) ==
    LET labels == SortedSeq(Range(y_true) \cup Range(y_pred))
    IN  [i \in 1 .. Len(labels) |-> [j \in 1 .. Len(labels) |->
            Cardinality({k \in 1 .. Len(y_true) :
                            y_true[k] = labels[i] /\ y_pred[k] = labels[j]})]]

\* confusion_matrix(test_labels, preds)
ConfusionCell ==
    /\ pc = "confusion"
    /\ cm' = confusion_matrix(y_test, preds)
    /\ pc' = "done"
    /\ UNCHANGED <<cell, reg_len, seed, bindVars, dataVars, preds, acc, splitVars, loopVars, error>>

PrepNext ==
    \/ EncodeLabels
    \/ TrainTestSplit
    \/ RandomSplit
    \/ Predict
    \/ TestAccuracy
    \/ ConfusionCell

PrepSpec == PrepInit /\ [][PrepNext]_vars

(* ====================================================================== *)
(*                               Claims                                   *)
(* ====================================================================== *)
TrainPcs == {"forward", "loss", "append", "count", "backward", "step", "zero_grad"}

ValPcs == {"val_reset", "val_iter", "val_fetch", "val_forward", "val_loss",
           "val_append", "val_count", "val_metrics"}

\* the collaborator calls of one training batch, in order
TrainOrder == <<"forward", "loss", "backward", "step", "zero_grad">>

\* how far the calls for the current batch have got at each position of the body
CallsMadeAt ==
    [forward |-> 0, loss |-> 1, append |-> 2, count |-> 2, backward |-> 2,
     step |-> 3, zero_grad |-> 4]

\* the entries of the epoch's log that belong to one pass
PassLog(pass) == SelectSeq(log, LAMBDA e : e.pass = pass)

(* C1: in every training loop each batch is processed in the order forward,
   loss, backward, exactly one optimizer step, gradient clear; the next batch
   is fetched (and the pass is left) only after the gradient clear of the
   batch before it. *)
C1_BatchOrder ==
    /\ pc \in TrainPcs => ops = SubSeq(TrainOrder, 1, CallsMadeAt[pc])
    /\ pc = "fetch" => (ops = TrainOrder \/ (ops = << >> /\ log = << >>))
    /\ pc \in {"train_metrics", "val_reset"} =>
          (ops = TrainOrder \/ (ops = << >> /\ log = << >> /\ TrainSet = << >>))

C1_Witness ==
    /\ cell = "3.2"
    /\ pc = "fetch"
    /\ ops = TrainOrder
    /\ Len(log) = 1
    /\ it # << >>

(* C2: gradients never carry over: whenever backward is about to be called the
   accumulated gradient is empty or zero, and at every optimizer step it is the
   gradient of the current batch's loss alone. *)
C2_NoGradCarryOver ==
    /\ pc = "backward" => (grad = << >> \/ grad = ZeroGrad(param))
    /\ pc = "step" => grad = BatchGrad(Forward(param, b), b)

\* the optimizer step of the first batch after a validation pass, with a
\* gradient that is not zero
C2_Witness ==
    /\ cell = "3.4"
    /\ epoch >= 1
    /\ pc = "step"
    /\ Len(log) = 1
    /\ grad # ZeroGrad(param)

ValidationStepReadOnly ==
    pc \in ValPcs =>
        /\ param' = param
        /\ grad' = grad
        /\ opt_steps' = opt_steps
        /\ graph' = FALSE

(* C3: the validation pass computes no gradient and mutates nothing of the
   model: no step taken inside it changes the parameters, the accumulated
   gradients or the optimizer, and no autograd graph is recorded. *)
C3_ValidationReadOnly == [][ValidationStepReadOnly]_vars

\* a validation pass that has evaluated its batch, after training has run
C3_Witness ==
    /\ pc = "val_metrics"
    /\ epoch >= 1
    /\ Len(PassLog("val")) = 1
    /\ opt_steps > 0
    /\ grad = ZeroGrad(param)

(* C4: a second validation evaluation, run right after the validation pass of
   an epoch with no training step in between, yields the loss and the accuracy
   the pass has just reported. *)
C4_ValidationRepeatable ==
    (pc = "print" /\ HasValidation) =>
        [loss |-> val_avg_loss, accuracy |-> val_accuracy]
            = EvaluatePass(param, ValSet, ValBatchSize)

C4_Witness ==
    /\ pc = "print"
    /\ HasValidation
    /\ epoch >= 1
    /\ val_avg_loss # RZero
    /\ val_avg_loss # train_avg_loss

\* the number of batches of a training pass
NumBatches == Len(BatchSizes(Len(TrainSet), TrainBatchSize))

StepIsTheOnlyMutation ==
    /\ param' # param => pc \in {"create", "step"}
    /\ opt_steps' # opt_steps =>
          \/ pc = "create" /\ opt_steps' = 0
          \/ pc = "step" /\ opt_steps' = opt_steps + 1
    /\ pc = "step" => opt_steps' = opt_steps + 1
    /\ pc' = "fetch" => opt_steps' = epoch' * NumBatches + Len(PassLog("train"))'
    /\ pc' = "done" => opt_steps' = Epochs * NumBatches
    /\ (pc' = "done" /\ IsReg) => opt_steps' = 20

(* C5: the parameters change only in the optimizer step, which runs exactly
   once per training batch: when a batch is done the optimizer has taken one
   step per batch processed so far, and a finished run has taken
   (number of epochs) x (batches per epoch) steps, 20 for the regression run. *)
C5_OnlyStepMutates == [][StepIsTheOnlyMutation]_vars

C5_Witness ==
    /\ pc = "done"
    /\ IsReg
    /\ opt_steps = 20
    /\ param \notin InitParams

\* a pass over a dataset no larger than the batch size is one batch, the whole
\* dataset
OneFullBatch(pass, ds, bs) ==
    (Len(ds) > 0 /\ bs >= Len(ds)) =>
        LET es == PassLog(pass)
        IN  /\ Len(es) <= 1
            /\ \A i \in 1 .. Len(es) :
                  Len(es[i].batch) = Len(ds) /\ Range(es[i].batch) = Range(ds)
            /\ pc = "print" => Len(es) = 1

(* C6: for a non-empty dataset of N samples and a batch size >= N, every epoch
   processes exactly one batch, which holds all N samples: one optimizer step
   per epoch in training, one forward pass per epoch in validation. *)
C6_FullBatch ==
    /\ OneFullBatch("train", TrainSet, TrainBatchSize)
    /\ HasValidation => OneFullBatch("val", ValSet, ValBatchSize)
    /\ (pc = "print" /\ TrainBatchSize >= Len(TrainSet)) => opt_steps = epoch + 1

C6_Witness ==
    /\ pc = "print"
    /\ IsReg
    /\ reg_len >= 2
    /\ epoch >= 1
    /\ Len(PassLog("train")) = 1

\* the samples of a logged batch whose hard prediction is the true label
CorrectIn(e) == Cardinality({k \in 1 .. Len(e.hard) : e.hard[k] = e.labels[k]})

PassCorrect(pass) ==
    LET es == PassLog(pass) IN ISum([i \in 1 .. Len(es) |-> CorrectIn(es[i])])

PassSamples(pass) ==
    LET es == PassLog(pass) IN ISum([i \in 1 .. Len(es) |-> Len(es[i].batch)])

\* correct / total over the predictions and labels the pass has seen
RefAccuracy(pass) == Rat(PassCorrect(pass), PassSamples(pass))

InUnitInterval(r) == RLeq(RZero, r) /\ RLeq(r, <<1, 1>>)

(* C7: the accuracy of every epoch, training and validation, lies in [0, 1]
   and is the number of samples of the pass whose argmax prediction is the
   true label, divided by the number of samples the pass has seen. *)
C7_Accuracy ==
    (pc = "print" /\ HasAccuracy) =>
        LET reported == IF cell = "3.4" THEN train_accuracy ELSE accuracy
        IN  /\ reported = RefAccuracy("train")
            /\ InUnitInterval(reported)
            /\ HasValidation =>
                  /\ val_accuracy = RefAccuracy("val")
                  /\ InUnitInterval(val_accuracy)

C7_Witness ==
    /\ pc = "print"
    /\ cell = "3.4"
    /\ train_accuracy \notin {RZero, <<1, 1>>}
    /\ val_accuracy = <<1, 1>>

LossesOf(pass) == LET es == PassLog(pass) IN [i \in 1 .. Len(es) |-> es[i].loss]

\* (sum of the batch losses of the pass) / (number of its batches)
RefMeanLoss(pass) == RDivInt(RSum(LossesOf(pass)), Len(PassLog(pass)))

(* C8: the loss reported for an epoch is the arithmetic mean of the batch
   losses of its pass: their sum divided by the number of batches processed.
   This is the value computed for the report in every loop, and the value
   printed by the loops that print it unrounded (CL1 and section 3.2). *)
C8_MeanLoss ==
    /\ pc = "print" =>
          /\ EpochLoss = RefMeanLoss("train")
          /\ HasValidation => val_avg_loss = RefMeanLoss("val")
    /\ (pc = "epoch" /\ out_count > 0 /\ cell \in {"2.4", "3.2"}) =>
          out_last.fields = <<RefMeanLoss("train")>>

C8_Witness ==
    /\ pc = "epoch"
    /\ cell = "3.2"
    /\ out_count > 0
    /\ Len(losses) = 2
    /\ losses[1] # losses[2]

(* C9: every metric is computed from the batches of its own pass and epoch:
   losses and n_correct are empty / zero when a training pass starts and again
   when the validation pass starts, between batches they hold exactly the
   values of the batches of the current pass, the training metrics are captured
   before the second reset and stay through the validation pass, and the
   validation metrics come from the validation batches alone. *)
C9_MetricsOfOwnPass ==
    /\ pc = "iter" => (losses = << >> /\ (HasAccuracy => n_correct = 0))
    /\ pc = "val_iter" => (losses = << >> /\ n_correct = 0)
    /\ pc \in {"fetch", "train_metrics"} =>
          /\ losses = LossesOf("train")
          /\ HasAccuracy => n_correct = PassCorrect("train")
    /\ pc \in {"val_fetch", "val_metrics"} =>
          /\ losses = LossesOf("val")
          /\ n_correct = PassCorrect("val")
    /\ (HasValidation /\ pc \in ValPcs \cup {"print"}) =>
          /\ train_avg_loss = RefMeanLoss("train")
          /\ train_accuracy = RefAccuracy("train")
    /\ (HasValidation /\ pc = "print") =>
          /\ val_avg_loss = RefMeanLoss("val")
          /\ val_accuracy = RefAccuracy("val")

\* the report of a later epoch whose two passes differ, with the line of the
\* epoch before still the last one printed
C9_Witness ==
    /\ pc = "print"
    /\ HasValidation
    /\ epoch >= 1
    /\ out_last.epoch = epoch - 1
    /\ train_avg_loss # val_avg_loss
    /\ train_accuracy # val_accuracy
    /\ out_last.fields[1] # train_avg_loss

(* C10: a run on a non-empty training set always reaches the finished state,
   and reaches it after exactly the configured number of epochs, each reported
   once, whatever the losses and accuracies are: 20 epochs in the regression
   notebook.  The only runs that end otherwise are those an exception ends,
   and they are runs on an empty training set. *)
C10_Terminates ==
    /\ <>(pc = "done" \/ pc = "aborted")
    /\ [](pc = "aborted" => Len(TrainSet) = 0)
    /\ [](pc = "done" => (epoch = Epochs /\ out_count = Epochs))
    /\ []((pc = "done" /\ IsReg) => out_count = 20)

C10_Witness ==
    /\ pc = "done"
    /\ cell = "3.4"
    /\ out_count = Epochs
    /\ out_last.epoch = Epochs - 1

\* what one step may do to the printed output, and where a batch may be
\* processed relative to it
RecordPerEpochStep ==
    /\ (out_count' # out_count \/ out_last' # out_last) =>
          /\ pc = "print"
          /\ out_count' = out_count + 1
          /\ out_last'.epoch = epoch
          /\ out_last'.epoch = out_count
          /\ it = << >>
          /\ PassSamples("train") = Len(TrainSet)
          /\ opt_steps = (epoch + 1) * NumBatches
    /\ pc' \in TrainPcs =>
          /\ out_count' = epoch'
          /\ epoch' > 0 => out_last'.epoch = epoch' - 1
    /\ pc' = "done" =>
          /\ out_count' = Epochs
          /\ out_last'.epoch = Epochs - 1

(* C11: exactly one record is emitted per epoch, with the epoch indices
   0, 1, ... in increasing order; the record of epoch e is emitted after every
   batch of epoch e has been processed, and no batch of epoch e+1 is processed
   before it. *)
C11_RecordPerEpoch == [][RecordPerEpochStep]_vars

C11_Witness ==
    /\ pc = "forward"
    /\ cell = "3.4"
    /\ epoch >= 2
    /\ out_count = epoch
    /\ out_last.epoch = epoch - 1
    /\ Len(log) = 1

\* the samples a pass has seen, each as often as it was seen
SeenBy(pass, i) ==
    LET es == PassLog(pass)
    IN  ISum([k \in 1 .. Len(es) |->
                Cardinality({j \in 1 .. Len(es[k].batch) : es[k].batch[j] = i})])

ValidationPerEpochStep ==
    /\ pc' \in ValPcs =>
          /\ it' = << >> \/ pc' \notin {"val_reset", "val_iter"}
          /\ \A i \in Range(TrainSet) : SeenBy("train", i)' = 1
          /\ opt_steps' = (epoch' + 1) * NumBatches
          /\ out_count' = epoch'
    /\ pc' \in TrainPcs \cup {"iter", "fetch"} => PassLog("val")' = << >>
    /\ (pc' = "print" /\ HasValidation) =>
          \A i \in Range(ValSet) : SeenBy("val", i)' = 1
    /\ (pc = "print" /\ HasValidation) =>
          out_last' = [epoch |-> epoch,
                       fields |-> <<FormatFixed(RefMeanLoss("train"), 3),
                                    FormatFixed(RefMeanLoss("val"), 3),
                                    FormatFixed(RefAccuracy("train"), 2),
                                    FormatFixed(RefAccuracy("val"), 2)>>]

(* C12: with validation data, every epoch runs exactly one validation pass over
   the validation set; the pass starts only after every training batch of the
   epoch has had its optimizer step, it is over before the next epoch's first
   training batch, and the epoch's record holds the training and the
   validation metrics of that same epoch. *)
C12_ValidationPerEpoch == [][ValidationPerEpochStep]_vars

C12_Witness ==
    /\ pc = "epoch"
    /\ HasValidation
    /\ out_count >= 2
    /\ out_last.epoch = epoch - 1
    /\ out_last.fields[1] # out_last.fields[2]
    /\ Len(PassLog("val")) = 1

\* two index arrays that hold every index 1 .. n exactly once between them
SplitsExactly(first, second, n) ==
    /\ Range(first) \cup Range(second) = 1 .. n
    /\ Range(first) \cap Range(second) = {}
    /\ Cardinality(Range(first)) = Len(first)
    /\ Cardinality(Range(second)) = Len(second)
    /\ Len(first) + Len(second) = n

\* the code of the species of a csv row, read off the list of names
CodeOfRow(r) == CHOOSE c \in Classes : SpeciesNames[c + 1] = species[r]

\* the rows of an output pair are the csv rows the index array names
KeepsPairs(xs, ys, rows) ==
    /\ Len(xs) = Len(rows)
    /\ Len(ys) = Len(rows)
    /\ \A i \in 1 .. Len(rows) : xs[i] = ClsX(rows[i]) /\ ys[i] = CodeOfRow(rows[i])

(* C13: both splits are partitions.  train_test_split puts every row of the
   csv into exactly one of the training and the test set, random_split puts
   every sample of t_dataset into exactly one of its two subsets, with the
   sizes asked for, nothing duplicated or dropped, and every sample keeps the
   features and the label of its row. *)
C13_SplitsPartition ==
    /\ pc \in {"split", "predict", "accuracy", "confusion", "done"} =>
          /\ SplitsExactly(train_rows, test_rows, Len(species))
          /\ Len(train_rows) = TLen /\ Len(test_rows) = TestLen
          /\ KeepsPairs(x_train, y_train, train_rows)
          /\ KeepsPairs(x_test, y_test, test_rows)
    /\ pc \in {"predict", "accuracy", "confusion", "done"} =>
          /\ SplitsExactly(train_idx, val_idx, Len(x_train))
          /\ Len(train_idx) = TrainLen /\ Len(val_idx) = ValLen

C13_Witness ==
    /\ pc = "predict"
    /\ cell = "prep"
    /\ 1 \in Range(test_rows)
    /\ y_train # SubSeq(y, 1, TLen)
    /\ 1 \in Range(val_idx)

\* the sum of all entries, and of the diagonal entries, of a square matrix
EntrySum(m) == ISum([i \in 1 .. Len(m) |-> ISum(m[i])])

Trace(m) == ISum([i \in 1 .. Len(m) |-> m[i][i]])

(* C14: the entries of the confusion matrix of the assessment step sum to the
   number of test samples, and its trace is the number of correct predictions
   the test accuracy was computed from: accuracy = trace / sum of entries. *)
C14_ConfusionTotals ==
    pc = "done" =>
        /\ Len(preds) = Len(y_test)
        /\ EntrySum(cm) = Len(y_test)
        /\ Trace(cm) = Cardinality({k \in 1 .. Len(preds) : preds[k] = y_test[k]})
        /\ acc = Rat(Trace(cm), EntrySum(cm))

C14_Witness ==
    /\ pc = "done"
    /\ cell = "prep"
    /\ acc = <<1, 2>>
    /\ Len(cm) >= 2
    /\ EntrySum(cm) = TestLen

\* the labels the rows and columns of the matrix stand for
MatrixLabels == SortedSeq(Range(y_test) \cup Range(preds))

(* C15: in the confusion matrix of the assessment step the element in row i
   and column j is the number of test samples predicted as class i whose true
   class is j: rows are predicted labels, columns are true labels. *)
C15_RowsArePredicted ==
    pc = "done" =>
        \A i \in 1 .. Len(cm) : \A j \in 1 .. Len(cm) :
            cm[i][j] = Cardinality({k \in 1 .. Len(preds) :
                                      preds[k] = MatrixLabels[i] /\ y_test[k] = MatrixLabels[j]})

\* the classes that share the largest score of a sample
TiedForMax(sc) == {c \in Classes : \A d \in Classes : sc[d + 1] <= sc[c + 1]}

\* the correct-count of the batches of a pass before its last one
CorrectBeforeLast(pass) ==
    LET es == PassLog(pass) IN ISum([i \in 1 .. Len(es) - 1 |-> CorrectIn(es[i])])

(* C16: the hard prediction of a sample is an index of its largest score, the
   lowest one when several classes tie, and the correct-count of a batch counts
   a sample exactly when its label is that lowest index of the largest score. *)
C16_ArgMaxLowestOnTies ==
    /\ (pc \in {"append", "count", "backward", "val_append", "val_count"} /\ HasAccuracy) =>
          LET e == log[Len(log)]
          IN  \A k \in 1 .. Len(pred) :
                 /\ e.hard[k] \in TiedForMax(pred[k])
                 /\ \A c \in TiedForMax(pred[k]) : e.hard[k] <= c
    /\ (pc = "backward" /\ HasAccuracy) =>
          n_correct = CorrectBeforeLast("train")
                      + Cardinality({k \in 1 .. Len(pred) :
                            /\ Targets(b)[k] \in TiedForMax(pred[k])
                            /\ \A c \in TiedForMax(pred[k]) : Targets(b)[k] <= c})

\* a batch with a sample whose label ties for the largest score without being
\* the lowest tied class, so that it is not counted
C16_Witness ==
    /\ pc = "backward"
    /\ HasAccuracy
    /\ \E k \in 1 .. Len(pred) :
          /\ Cardinality(TiedForMax(pred[k])) >= 2
          /\ Targets(b)[k] \in TiedForMax(pred[k])
          /\ \E c \in TiedForMax(pred[k]) : c < Targets(b)[k]
    /\ n_correct < PassSamples("train")

Recognized(sp) == \E c \in Classes : SpeciesNames[c + 1] = sp

(* C17: encode_species maps 'setosa' to 0, 'versicolor' to 1 and 'virginica'
   to 2 and raises ValueError for anything else: y holds one label of
   {0, 1, 2} per row of the csv, in row order, and a csv with a species that is
   not recognized ends the run with ValueError before y exists, before any
   split and before any prediction. *)
C17_EncodeSpecies ==
    /\ pc \notin {"encode", "aborted"} =>
          /\ Len(y) = Len(species)
          /\ \A r \in 1 .. Len(species) :
                /\ y[r] \in Classes
                /\ species[r] = "setosa" <=> y[r] = 0
                /\ species[r] = "versicolor" <=> y[r] = 1
                /\ species[r] = "virginica" <=> y[r] = 2
    /\ (\E r \in 1 .. Len(species) : ~Recognized(species[r])) =>
          /\ pc \in {"encode", "aborted"}
          /\ pc = "aborted" => error = "ValueError"
          /\ y = << >>
          /\ train_rows = << >> /\ test_rows = << >>
          /\ x_train = << >> /\ y_train = << >>
          /\ train_idx = << >> /\ val_idx = << >>
          /\ preds = << >>
    /\ pc = "aborted" => \E r \in 1 .. Len(species) : ~Recognized(species[r])

C17_Witness ==
    /\ pc = "aborted"
    /\ cell = "prep"
    /\ error = "ValueError"
    /\ species[NRows] = BadSpecies
    /\ \A r \in 1 .. NRows - 1 : Recognized(species[r])

\* the training cell was handed a dataset without samples
TrainDataEmpty == IF IsReg THEN reg_len = 0 ELSE Len(x_train) = 0

(* C18: an empty training dataset is fatal: the run ends with an exception no
   later than in its first epoch, emits no record, performs no optimizer step
   and changes no parameter, and once ended it stays ended.  No other run ends
   with an exception. *)
C18_EmptyDatasetIsFatal ==
    /\ TrainDataEmpty =>
          /\ pc \in {"split", "loader", "create", "epoch", "iter", "fetch",
                     "train_metrics", "aborted"}
          /\ epoch = 0
          /\ out_count = 0
          /\ out_last.fields = << >>
          /\ opt_steps = 0
          /\ log = << >>
          /\ param = << >> \/ param \in InitParams
          /\ pc = "aborted" <=> error # ""
    /\ pc = "aborted" =>
          /\ TrainDataEmpty
          /\ error \in {"ValueError", "ZeroDivisionError"}
          /\ ~ENABLED Next

\* the first epoch of section 3.3 found no batch and the division failed
C18_Witness ==
    /\ pc = "aborted"
    /\ cell = "3.3"
    /\ error = "ZeroDivisionError"
    /\ param \in InitParams
    /\ losses = << >>

\* the same samples, each as often, possibly in another order
SameSamples(s, t) ==
    /\ Len(s) = Len(t)
    /\ \A v \in Range(s) \cup Range(t) :
          Cardinality({i \in DOMAIN s : s[i] = v}) = Cardinality({i \in DOMAIN t : t[i] = v})

\* one step of a run leaves the samples and the split as they were
DatasetUntouchedStep ==
    /\ dataVars' = dataVars
    /\ reg_len' = reg_len
    /\ pc # "split" => splitVars' = splitVars
    /\ (pc = "iter" /\ pc' = "fetch") =>
          /\ SameSamples(it', TrainSet)
          /\ ~TrainShuffle => it' = TrainSet
    /\ (pc = "val_iter" /\ pc' = "val_fetch") => it' = ValSet

(* C19: while a model is trained and evaluated the dataset and its split do
   not change: no step adds, removes, reorders or alters a sample or moves one
   between the training and the validation part; a shuffling loader decides
   only the order in which the samples of its part are visited, a validation
   loader visits its part in the stored order. *)
C19_DatasetImmutable == [][DatasetUntouchedStep]_vars

\* the shuffled pass of a later epoch of section 3.4 visits the training part
\* in another order than the split stored it
C19_Witness ==
    /\ cell = "3.4"
    /\ pc = "fetch"
    /\ epoch >= 1
    /\ it # train_idx
    /\ SameSamples(it, train_idx)
    /\ Len(train_idx) = TrainLen
    /\ Len(val_idx) = ValLen

(* ------------------- the ten-point regression scenario ------------------- *)
(* The loop of CL1 on x = 5.0, 5.1, ..., 5.9 and y = 2x + 1, with the one batch
   per epoch that batch_size = len(x) gives.  x and y are in tenths, the
   parameters <<w, b>> in units of 0.0001, so pred - y is in units of 0.00001.
   Every division rounds down by less than one unit: over the epochs of a run
   that moves a parameter by less than 0.0001 per epoch. *)
ScenarioX == [i \in 1 .. 10 |-> 49 + i]

ScenarioY == [i \in 1 .. 10 |-> 2 * ScenarioX[i] + 10]

\* nn.Linear(1, 1): weight and bias drawn uniformly from (-1, 1)
ScenarioInitParams == {<<w, c>> : w \in {-10000, -5000, 0, 5000, 10000},
                                  c \in {-10000, -5000, 0, 5000, 10000}}

\* model(batch_x) - batch_y for the whole dataset
ScenarioResiduals(p) ==
    [i \in 1 .. 10 |-> p[1] * ScenarioX[i] + 10 * p[2] - 10000 * ScenarioY[i]]

\* MSELoss: the sum of the squared residuals; the loss is this sum / 10
ScenarioSSE(p) ==
    ISum([i \in 1 .. 10 |-> ScenarioResiduals(p)[i] * ScenarioResiduals(p)[i]])

\* loss.backward(): d loss/d w = 2/10 * sum (pred - y) * x, d loss/d b =
\* 2/10 * sum (pred - y); the two sums are kept
ScenarioGrad(p) ==
    << ISum([i \in 1 .. 10 |-> ScenarioResiduals(p)[i] * ScenarioX[i]]),
       ISum(ScenarioResiduals(p)) >>

\* SGD(lr=0.01).step(): p - 0.01 * grad, in the parameters' unit
ScenarioSGD(p, g) == << p[1] - (g[1] \div 50000), p[2] - (g[2] \div 5000) >>

ScenarioInit ==
    /\ cell = "scenario"
    /\ pc = "forward"
    /\ epoch = 0
    /\ reg_len = 10
    /\ seed = 0
    /\ param \in ScenarioInitParams
    /\ NotStarted
    /\ error = ""
    /\ model_obj = 1
    /\ opt_obj = 1
    /\ prev_param = << >>
    /\ prev_steps = 0
    /\ SetData(NoData)
    /\ preds = << >>
    /\ acc = << >>
    /\ cm = << >>

\* pred = model(batch_x); loss = loss_fn(pred, batch_y); loss.backward()
ScenarioBackward ==
    /\ pc = "forward"
    /\ epoch < ScenarioEpochs
    /\ grad' = ScenarioGrad(param)
    /\ graph' = TRUE
    /\ pc' = "step"
    /\ UNCHANGED <<cfgVars, error, epoch, splitVars, param, opt_steps, it, b, pred, loss, accVars, metricVars, outVars, log, ops>>

\* optimizer.step(); optimizer.zero_grad(); the epoch's print
ScenarioStep ==
    /\ pc = "step"
    /\ param' = ScenarioSGD(param, grad)
    /\ grad' = <<0, 0>>
    /\ graph' = FALSE
    /\ opt_steps' = opt_steps + 1
    /\ out_count' = out_count + 1
    /\ epoch' = epoch + 1
    /\ pc' = "forward"
    /\ UNCHANGED <<cfgVars, error, splitVars, it, b, pred, loss, accVars, metricVars, out_last, log, ops>>

\* range(...) is exhausted
ScenarioFinish ==
    /\ pc = "forward"
    /\ epoch = ScenarioEpochs
    /\ pc' = "done"
    /\ UNCHANGED <<cfgVars, error, epoch, splitVars, modelVars, batchVars, accVars, metricVars, outVars, log, ops>>

ScenarioNext ==
    \/ ScenarioBackward
    \/ ScenarioStep
    \/ ScenarioFinish

ScenarioSpec == ScenarioInit /\ [][ScenarioNext]_vars

(* C20: on x = 5.0, ..., 5.9 and y = 2x + 1, once the 200 full-batch epochs of
   gradient descent are over, the mean squared error is below 0.001 and the
   slope and the intercept are within 0.05 of 2 and of 1. *)
C20_ScenarioConverges ==
    (cell = "scenario" /\ pc = "done") =>
        /\ ScenarioSSE(param) < 100000000
        /\ Abs(param[1] - 20000) <= 500
        /\ Abs(param[2] - 10000) <= 500

\* the samples the batches of a pass held, counted with repetition
SamplesSeen(pass) ==
    ISum([k \in 1 .. Len(PassLog(pass)) |-> Len(PassLog(pass)[k].batch)])

(* C21: when the training pass of an epoch is over, every sample of the
   training subset has been in exactly one of its batches, shuffled or not and
   also when the subset's length is no multiple of batch_size; the pass had
   ceil(N / batch_size) batches, none empty and none larger than batch_size,
   so the length the accuracy is divided by is the number of samples seen. *)
C21_BatchesPartition ==
    (pc \in {"train_metrics", "print"} /\ TrainBatchSize > 0) =>
        LET es == PassLog("train")
            N  == Len(TrainSet)
        IN  /\ \A i \in Range(TrainSet) : SeenBy("train", i) = 1
            /\ \A k \in 1 .. Len(es) :
                  /\ Range(es[k].batch) \subseteq Range(TrainSet)
                  /\ Len(es[k].batch) \in 1 .. TrainBatchSize
            /\ Len(es) = (N + TrainBatchSize - 1) \div TrainBatchSize
            /\ SamplesSeen("train") = N
            /\ TrainDatasetLen = SamplesSeen("train")

\* a shuffled pass of section 3.4 whose last batch is short
C21_Witness ==
    /\ cell = "3.4"
    /\ pc = "train_metrics"
    /\ epoch >= 1
    /\ Len(TrainSet) % TrainBatchSize # 0
    /\ Len(PassLog("train")) >= 2
    /\ Len(PassLog("train")[Len(PassLog("train"))].batch) < TrainBatchSize
    /\ PassLog("train")[1].batch # SubSeq(train_idx, 1, TrainBatchSize)

\* the csv rows behind the samples of a batch of the training dataset
RowsOf(batch) == {train_rows[batch[k]] : k \in 1 .. Len(batch)}

\* the batch a gradient or a parameter update is computed from holds samples
\* of the training subset only
TrainsOnTrainSubsetStep ==
    (cell = "3.4" /\ pc # "create" /\ (param' # param \/ grad' # grad)) =>
        /\ pc \in {"backward", "step", "zero_grad"}
        /\ b # << >>
        /\ Range(b) \subseteq Range(train_idx)
        /\ Range(b) \cap Range(val_idx) = {}
        /\ RowsOf(b) \cap Range(test_rows) = {}

(* C22: in the run of section 3.4 every batch that reaches backward, the
   optimizer step or the gradient clear is drawn from the training subset:
   none of its samples belongs to the validation subset or to the test set,
   in any epoch, and nothing else changes a gradient or a parameter. *)
C22_HeldOutNeverTrains == [][TrainsOnTrainSubsetStep]_vars

\* an optimizer step of a later epoch, with both held-out sets non-empty
C22_Witness ==
    /\ cell = "3.4"
    /\ pc = "step"
    /\ epoch >= 1
    /\ Len(val_idx) = ValLen
    /\ Len(test_rows) = TestLen
    /\ b # << >>
    /\ Range(b) \subseteq Range(train_idx)
    /\ grad # << >>

\* a reset binds both names anew, a step updates the model that made the loss
FreshModelStep ==
    /\ pc = "create" =>
          /\ model_obj' # model_obj
          /\ opt_obj' = model_obj'
          /\ param' \in InitParams
          /\ grad' = << >>
          /\ opt_steps' = 0
    /\ pc # "create" => (model_obj' = model_obj /\ opt_obj' = opt_obj)
    /\ pc = "step" =>
          /\ opt_obj = model_obj
          /\ pred = Forward(param, b)
          /\ param' = OptimizerStep(param, grad)
    /\ prev_param' = prev_param
    /\ prev_steps' = prev_steps

(* C23: every reset binds the name of the model to a new object and the name
   of the optimizer to a new optimizer that holds this object's parameters and
   has taken no step; every optimizer step updates the parameters of the model
   whose forward pass produced the current prediction and loss; the
   parameters and the optimizer of the section before are never updated and
   the new parameters do not depend on them. *)
C23_OptimizerBoundToModel == [][FreshModelStep]_vars

\* an optimizer step in a section that found a trained model when it started
C23_Witness ==
    /\ cell \in {"3.3", "3.4"}
    /\ pc = "zero_grad"
    /\ prev_param # << >>
    /\ prev_steps > 0
    /\ model_obj = 1
    /\ opt_obj = 1
    /\ opt_steps >= 1
    /\ param # prev_param

(* ------------- section 3.4 followed by the test-set assessment ------------ *)
\* the cells after the training cell of section 3.4 are run, once
StartAssessment ==
    /\ pc = "done"
    /\ cell = "3.4"
    /\ preds = << >>
    /\ pc' = "predict"
    /\ UNCHANGED <<cfgVars, error, epoch, splitVars, modelVars, batchVars, accVars, metricVars, outVars, log, ops>>

AssessNext ==
    \/ Next
    \/ StartAssessment
    \/ Predict
    \/ TestAccuracy
    \/ ConfusionCell

AssessSpec == Init /\ [][AssessNext]_vars

\* what the log of the epoch says about the parameters each batch was
\* predicted with
MetricsParamStates ==
    LET tr == PassLog("train")
        va == PassLog("val")
    IN  /\ \A e \in Range(log) :
              /\ e.loss = LossFn(Forward(e.param, e.batch), e.labels)
              /\ IsReg \/ e.hard = HardPreds(Forward(e.param, e.batch))
        /\ pc \in ValPcs \cup {"train_metrics", "print"} =>
              /\ \A k \in 1 .. Len(tr) : tr[k].steps = epoch * NumBatches + k - 1
              /\ \A k \in 1 .. Len(va) :
                    /\ va[k].steps = (epoch + 1) * NumBatches
                    /\ va[k].steps = opt_steps
                    /\ va[k].param = param

\* after the last epoch the parameters are those of its last optimizer step,
\* which its validation pass used, and the test predictions are made with them
AssessmentReadsLast ==
    /\ pc \in {"cell_done", "done", "predict", "accuracy", "confusion"} =>
          /\ opt_steps = Epochs * NumBatches
          /\ \A k \in 1 .. Len(PassLog("val")) :
                /\ PassLog("val")[k].steps = opt_steps
                /\ PassLog("val")[k].param = param
    /\ (cell = "3.4" /\ pc \in {"accuracy", "confusion"}) =>
          preds = HardPreds(Scores(param, x_test))
    /\ (cell = "3.4" /\ pc = "done" /\ preds # << >>) =>
          /\ preds = HardPreds(Scores(param, x_test))
          /\ cm # << >>

(* C24: the validation batches of an epoch are all predicted with the
   parameters the last optimizer step of that epoch's training pass produced,
   and these are the parameters at the epoch's report; the k-th training batch
   of an epoch is predicted after exactly k - 1 optimizer steps of the epoch,
   before its own step, so an epoch's training metrics come from as many
   parameter states as it has batches; once the last epoch is over the
   parameters stay as its last step left them, and the test-set assessment
   predicts with them and leaves them unchanged. *)
C24_ParameterStates == MetricsParamStates /\ AssessmentReadsLast

\* the test predictions have been made after the last epoch, whose two training
\* batches were predicted with different parameters
C24_Witness ==
    /\ cell = "3.4"
    /\ pc = "accuracy"
    /\ preds = HardPreds(Scores(param, x_test))
    /\ opt_steps = Epochs * NumBatches
    /\ Len(PassLog("train")) = 2
    /\ PassLog("train")[1].param # PassLog("train")[2].param
    /\ PassLog("train")[2].param # param
    /\ Len(PassLog("val")) = 1
    /\ PassLog("val")[1].param = param

\* the mean of the per-batch mean losses of a pass, each weighted by the
\* number of samples of its batch
SampleWeightedLoss(pass) ==
    LET es == PassLog(pass)
    IN  RDivInt(RSum([k \in 1 .. Len(es) |-> Rat(es[k].loss[1] * Len(es[k].batch), es[k].loss[2])]),
                SamplesSeen(pass))

SameBatchSizes(pass) ==
    \A j, k \in 1 .. Len(PassLog(pass)) :
        Len(PassLog(pass)[j].batch) = Len(PassLog(pass)[k].batch)

(* C25: the loss an epoch reports gives every batch of the training pass the
   same weight: it is the plain mean of the batch losses.  It is the
   sample-weighted mean of the batch losses whenever all batches of the pass
   have the same size; with two batches of different sizes and different
   losses it is not. *)
C25_BatchesWeighEqually ==
    pc = "print" =>
        LET es == PassLog("train")
        IN  /\ EpochLoss = RefMeanLoss("train")
            /\ SameBatchSizes("train") => EpochLoss = SampleWeightedLoss("train")
            /\ (/\ Len(es) = 2
                /\ Len(es[1].batch) # Len(es[2].batch)
                /\ es[1].loss # es[2].loss) => EpochLoss # SampleWeightedLoss("train")

\* a report of section 3.4 after a full and a short batch with different losses
C25_Witness ==
    /\ pc = "print"
    /\ cell = "3.4"
    /\ Len(PassLog("train")) = 2
    /\ Len(PassLog("train")[1].batch) = BatchSize
    /\ Len(PassLog("train")[2].batch) < BatchSize
    /\ PassLog("train")[1].loss # PassLog("train")[2].loss
    /\ train_avg_loss # SampleWeightedLoss("train")

(* ------------- CL1 on a dataset given in another sample order ------------- *)
\* the orders in which a dataset of n samples can hold them
Orders(n) == {s \in [1 .. n -> 1 .. n] : \A i, j \in 1 .. n : s[i] = s[j] => i = j}

\* CL1 with x and y permuted alike before TensorDataset(x, y): train_idx is
\* the order in which the dataset holds the samples
OrderInit ==
    /\ cell = "2.4"
    /\ pc = "loader"
    /\ epoch = 0
    /\ reg_len \in 1 .. RegLen
    /\ seed \in 0 .. MaxSeed
    /\ param = << >>
    /\ train_idx \in Orders(reg_len)
    /\ LoopNotStarted
    /\ error = ""
    /\ model_obj = 0
    /\ opt_obj = 0
    /\ prev_param = << >>
    /\ prev_steps = 0
    /\ SetData(NoData)
    /\ preds = << >>
    /\ acc = << >>
    /\ cm = << >>

OrderNext ==
    \/ MakeLoader
    \/ CreateModel
    \/ EpochStart
    \/ LoopExit
    \/ TrainIter
    \/ TrainFetch
    \/ TrainForward
    \/ TrainLoss
    \/ TrainAppend
    \/ TrainBackward
    \/ TrainStep
    \/ TrainZeroGrad
    \/ ReportEpoch
    \/ Finish

OrderSpec == OrderInit /\ [][OrderNext]_vars

\* what an epoch computes on the permuted dataset is what it computes, from
\* the same parameters, on the dataset in its original order
SameAsOriginalOrderStep ==
    LET whole == Iota(reg_len)
    IN  /\ pc = "loss" => loss' = LossFn(Forward(param, whole), Targets(whole))
        /\ pc = "backward" => grad' = Backward(grad, Forward(param, whole), whole)
        /\ pc = "step" => param' = OptimizerStep(param, grad)
        /\ pc = "print" =>
              /\ losses = <<loss>>
              /\ out_last'.fields = <<loss>>
              /\ opt_steps = epoch + 1

(* C26: with the one full-dataset batch per epoch of CL1 the order of the
   samples in the dataset does not matter: for every order, the loss of each
   epoch, the gradient and the parameters after the epoch's step are those the
   original order gives from the same parameters, so with the same initial
   parameters every epoch reports the same loss and ends with the same
   parameters. *)
C26_OrderIrrelevant == [][SameAsOriginalOrderStep]_vars

\* later epochs of a run on a dataset whose samples are not in the original order
C26_Witness ==
    /\ cell = "2.4"
    /\ pc = "epoch"
    /\ epoch >= 2
    /\ reg_len = RegLen
    /\ train_idx # Iota(reg_len)
    /\ b = train_idx
    /\ out_count = epoch
    /\ out_last.fields = <<loss>>
    /\ loss # RZero
====
